---- MODULE Spec2Model ----
(***************************************************************************)
(* State-machine model of the UiPath Orchestrator client layer:            *)
(*   src/src/service.py  OrchestratorClient (constructor, authenticate,    *)
(*                       get, domain accessors)                            *)
(*   src/server.py       _CLIENTS registry and get_client                  *)
(*   src/src/test.py     the callers of get_resources, whose body is not   *)
(*                       among the sources and is modelled from the        *)
(*                       written specification (sections 4.4 and 5)        *)
(* The scheduling model is asyncio: a coroutine runs without interruption  *)
(* until it awaits a network call, so every action below is one stretch of *)
(* a handler between two network suspension points.                        *)
(***************************************************************************)
EXTENDS Naturals, Sequences, FiniteSets, TLC

(***************************************************************************)
(* Bounds of the model.                                                    *)
(***************************************************************************)
MaxClients == 2
MaxPosts == 2
MaxAuth == 3
MaxReq == 2

\* the concurrent callers of the tool front end (asyncio tasks)
Callers == {"t1", "t2"}

(***************************************************************************)
(* Configuration.  server.py addresses clients by (account, tenant); the   *)
(* account -> tenants mapping is the ConfigStore handed to the core.       *)
(***************************************************************************)
CONFIG == [acme |-> <<"DEV", "PROD">>, globex |-> <<"DEV">>]

ConfiguredAccounts == DOMAIN CONFIG

\* service.py:16-20  the list of allow-listed tenant names (of the account)
TENANTS(account) == CONFIG[account]

\* the arguments the tool front end may pass to get_client
AccountArgs == ConfiguredAccounts \cup {"nope"}
TenantArgs == {"DEV", "PROD", "NOPE", ""}

Range(s) == {s[i] : i \in 1..Len(s)}

(***************************************************************************)
(* Values.                                                                 *)
(***************************************************************************)
\* _access_token: str | None = None   (None is the record with serial 0)
None == [cred |-> "", serial |-> 0]

\* Python truthiness of the token slot: None and "" are falsy
Truthy(tok) == tok.serial # 0

NoRet == [kind |-> "none", key |-> "", client |-> 0, token |-> None]
NoCall == [op |-> "none", key |-> "", client |-> 0, post |-> 0]

VARIABLES
    access_token,   \* OrchestratorClient._access_token (class-level slot)
    CLIENTS,        \* server.py _CLIENTS: key -> client instance
    objs,           \* every OrchestratorClient instance constructed so far
    pc,             \* per caller: "idle" or suspended at the token POST
    call,           \* per caller: the frame of the suspended coroutine
    ret,            \* per caller: what its last call returned or raised
    posts,          \* log of token-endpoint POSTs issued
    nauth           \* number of authenticate() invocations so far

regVars == <<access_token, CLIENTS, objs, pc, call, ret, posts, nauth>>

VARIABLES
    fetch,          \* the get_resources call in progress: session, kinds, folder
    task,           \* per requested kind: the state of its sub-fetch coroutine
    entry,          \* per requested kind: the entry its sub-fetch produced
    outcome,        \* per requested kind: what the network answered (history)
    order,          \* indices of the sub-fetches in the order they settled
    gets,           \* per requested kind: the GET request its sub-fetch sent
    resp            \* what get_resources returned to its caller

aggVars == <<fetch, task, entry, outcome, order, gets, resp>>

VARIABLES
    frame,          \* per caller: the get/post/get_headers call it is in
    wire,           \* per caller: the resource request that call has sent
    answer,         \* per caller: what the network answered to it (history)
    reply           \* per caller: what the call returned or raised

httpVars == <<frame, wire, answer, reply>>

VARIABLES
    run,            \* the list_library_versions call in progress (its frame)
    calls,          \* the network calls that call has issued, in order
    feeddoc,        \* the document the feed answered with and the call read
    final           \* what the call returned or raised

libVars == <<run, calls, feeddoc, final>>

VARIABLES
    dl,             \* the download_library_version call in progress
    disk,           \* the files of the download directory, by path
    ndl,            \* number of downloads started so far
    artifact        \* what the last download returned or raised

dlVars == <<dl, disk, ndl, artifact>>

VARIABLES
    probe,          \* the _get_first_working_json call: its arguments, position
    attempts,       \* its local list of recorded attempts
    requests,       \* the GETs it has issued, in order, with their answers
    found           \* what it returned or raised

prVars == <<probe, attempts, requests, found>>

extVars == <<httpVars, libVars, dlVars, prVars>>

vars == <<regVars, aggVars, extVars>>

(***************************************************************************)
(* OrchestratorClient.__init__                                             *)
(***************************************************************************)
\* the account must be present in the configuration
AccountKnown(account) == account \in ConfiguredAccounts

\* service.py:54-68  tenant resolution; "" stands for every falsy tenant
ResolveTenant(account, tenant) ==
    IF TENANTS(account) = <<>> THEN [ok |-> FALSE, tenant |-> ""]
    ELSE IF tenant # ""
         THEN IF tenant \in Range(TENANTS(account))
              THEN [ok |-> TRUE, tenant |-> tenant]
              ELSE [ok |-> FALSE, tenant |-> ""]
         ELSE [ok |-> TRUE, tenant |-> TENANTS(account)[1]]

\* service.py:50-70  the constructor: an error, or the fields of the instance
Construct(account, tenant) ==
    IF ~AccountKnown(account) THEN [ok |-> FALSE, tenant |-> ""]
    ELSE ResolveTenant(account, tenant)

\* server.py:26
Key(account, tenant) == account \o "/" \o tenant

(***************************************************************************)
(* OrchestratorClient.authenticate                                         *)
(***************************************************************************)
\* mutant of TokenCached: the cache check is lost, every call goes to the network
TokenCached_Never == FALSE

\* mutant of TokenCached: the token is reused only while one client exists
TokenCached_SingleTenant == Truthy(access_token) /\ Len(objs) < 2

\* mutant of TokenCached: the slot is taken to hold a token even when empty
TokenCached_Always == TRUE

\* service.py:81-82  the cached token is returned without a network call
TokenCached == Truthy(access_token)

\* the credentials a client sends are those of its own account
Credentials(c) == objs[c].account

\* service.py:84-92  the POST to {base_url}identity_/connect/token
PostToken(c) == Append(posts, Credentials(c))

\* service.py:95-96  the token the n-th POST produced; every exchange yields
\* a fresh, non-empty bearer value bound to the credentials it was made with
\* (an OAuth2 token endpoint never answers 2xx with an empty access_token)
IssuedToken(n) == [cred |-> posts[n], serial |-> n]

(***************************************************************************)
(* server.py get_client                                                    *)
(***************************************************************************)
\* mutant of CacheMiss: the registry lookup is lost, every call constructs
CacheMiss_Always(key) == TRUE

\* server.py:28
CacheMiss(key) == key \notin DOMAIN CLIENTS

\* server.py:31  _CLIENTS[key] = client
Insert(key, c) == (key :> c) @@ CLIENTS

ClientRet(key, c) ==
    [kind |-> "client", key |-> key, client |-> c, token |-> None]
TokenRet(c, tok) == [kind |-> "token", key |-> "", client |-> 0, token |-> tok]
ErrorRet(kind, key) == [kind |-> kind, key |-> key, client |-> 0, token |-> None]

\* server.py:21-33 up to the first suspension point (the token POST inside
\* client.authenticate()), or to the return when nothing suspends
GetClient(p, account, tenant) ==
    /\ UNCHANGED <<aggVars, extVars>>
    /\ pc[p] = "idle"
    /\ LET key == Key(account, tenant)
           made == Construct(account, tenant)
           c == Len(objs) + 1
       IN IF ~CacheMiss(key)
          THEN /\ ret' = [ret EXCEPT ![p] = ClientRet(key, CLIENTS[key])]
               /\ UNCHANGED <<access_token, CLIENTS, objs, pc, call, posts,
                              nauth>>
          ELSE IF ~made.ok
          THEN /\ ret' = [ret EXCEPT ![p] = ErrorRet("ConfigError", "")]
               /\ UNCHANGED <<access_token, CLIENTS, objs, pc, call, posts,
                              nauth>>
          ELSE /\ Len(objs) < MaxClients
               /\ nauth < MaxAuth
               /\ objs' = Append(objs, [account |-> account,
                                        tenant |-> made.tenant,
                                        madeFor |-> key])
               /\ nauth' = nauth + 1
               /\ IF TokenCached
                  THEN /\ CLIENTS' = Insert(key, c)
                       /\ ret' = [ret EXCEPT ![p] = ClientRet(key, c)]
                       /\ UNCHANGED <<access_token, pc, call, posts>>
                  ELSE /\ Len(posts) < MaxPosts
                       /\ posts' = Append(posts, account)
                       /\ pc' = [pc EXCEPT ![p] = "authenticating"]
                       /\ call' = [call EXCEPT ![p] =
                                     [op |-> "get_client", key |-> key,
                                      client |-> c, post |-> Len(posts) + 1]]
                       /\ ret' = [ret EXCEPT ![p] = NoRet]
                       /\ UNCHANGED <<access_token, CLIENTS>>

\* service.py:76-92  client.authenticate() called directly (test.py:46-49)
Authenticate(p, c) ==
    /\ UNCHANGED <<aggVars, extVars>>
    /\ pc[p] = "idle"
    /\ c \in 1..Len(objs)
    /\ nauth < MaxAuth
    /\ nauth' = nauth + 1
    /\ IF TokenCached
       THEN /\ ret' = [ret EXCEPT ![p] = TokenRet(c, access_token)]
            /\ UNCHANGED <<access_token, pc, call, posts>>
       ELSE /\ Len(posts) < MaxPosts
            /\ posts' = PostToken(c)
            /\ pc' = [pc EXCEPT ![p] = "authenticating"]
            /\ call' = [call EXCEPT ![p] =
                          [op |-> "authenticate", key |-> "", client |-> c,
                           post |-> Len(posts) + 1]]
            /\ ret' = [ret EXCEPT ![p] = NoRet]
            /\ UNCHANGED access_token
    /\ UNCHANGED <<CLIENTS, objs>>

\* service.py:92-97 and server.py:31-33  the token endpoint answers 2xx: the
\* token is stored in the class-level slot and the suspended caller resumes
TokenOk(p) ==
    /\ UNCHANGED <<aggVars, extVars>>
    /\ pc[p] = "authenticating"
    /\ access_token' = IssuedToken(call[p].post)
    /\ pc' = [pc EXCEPT ![p] = "idle"]
    /\ call' = [call EXCEPT ![p] = NoCall]
    /\ IF call[p].op = "get_client"
       THEN /\ CLIENTS' = Insert(call[p].key, call[p].client)
            /\ ret' = [ret EXCEPT ![p] =
                         ClientRet(call[p].key, call[p].client)]
       ELSE /\ ret' = [ret EXCEPT ![p] =
                         TokenRet(call[p].client, IssuedToken(call[p].post))]
            /\ UNCHANGED CLIENTS
    /\ UNCHANGED <<objs, posts, nauth>>

\* mutant of TokenFail: the client is cached although its authentication failed
TokenFail_Caches(p) ==
    /\ UNCHANGED <<aggVars, extVars>>
    /\ pc[p] = "authenticating"
    /\ pc' = [pc EXCEPT ![p] = "idle"]
    /\ call' = [call EXCEPT ![p] = NoCall]
    /\ ret' = [ret EXCEPT ![p] = ErrorRet("AuthError", "")]
    /\ CLIENTS' = IF call[p].op = "get_client"
                  THEN Insert(call[p].key, call[p].client)
                  ELSE CLIENTS
    /\ UNCHANGED <<access_token, objs, posts, nauth>>

\* service.py:92-93  the POST fails (non-2xx, network error or timeout):
\* raise_for_status / httpx raises, nothing is stored, the error propagates
TokenFail(p) ==
    /\ UNCHANGED <<aggVars, extVars>>
    /\ pc[p] = "authenticating"
    /\ pc' = [pc EXCEPT ![p] = "idle"]
    /\ call' = [call EXCEPT ![p] = NoCall]
    /\ ret' = [ret EXCEPT ![p] = ErrorRet("AuthError", "")]
    /\ UNCHANGED <<access_token, CLIENTS, objs, posts, nauth>>

(***************************************************************************)
(* OrchestratorClient.get_headers / get and the domain accessors           *)
(***************************************************************************)
\* folder_id: int | None
NoFolder == [none |-> TRUE, id |-> 0]
Folder(id) == [none |-> FALSE, id |-> id]

\* service.py:127  Python truthiness of folder_id
FolderTruthy(f) == ~f.none /\ f.id # 0

\* service.py:126-128  X-UIPATH-OrganizationUnitId
OrgUnit(c, f) == IF FolderTruthy(f) THEN ToString(f.id) ELSE objs[c].account

\* service.py:137-140
Url(c, endpoint) ==
    objs[c].account \o "/orchestrator_/" \o objs[c].tenant \o "/" \o endpoint

\* service.py:119-128 and 142-145  the GET request sent with bearer token tok
Request(c, endpoint, f, tok) ==
    [url |-> Url(c, endpoint), endpoint |-> endpoint, bearer |-> tok,
     tenant |-> objs[c].tenant, unit |-> OrgUnit(c, f)]

\* mutant of Endpoint: get_queues asks for the Assets collection
Endpoint_Swapped(kind) ==
    CASE kind = "assets" -> "odata/Assets"
      [] kind = "queues" -> "odata/Assets"
      [] kind = "triggers" -> "odata/ProcessSchedules"
      [] kind = "processes" -> "odata/Releases"

\* service.py:287-300  the endpoint each folder-scoped accessor requests
Endpoint(kind) ==
    CASE kind = "assets" -> "odata/Assets"
      [] kind = "queues" -> "odata/QueueDefinitions"
      [] kind = "triggers" -> "odata/ProcessSchedules"
      [] kind = "processes" -> "odata/Releases"

\* how many records a collection may hold
ItemCounts == {0, 2}

\* what the network can answer to one GET: a 2xx JSON document with n
\* records, a 2xx body that is not JSON, an error status, a transport error
\* or the 30 s timeout of the transport (service.py:70)
Outcomes ==
    [t : {"ok"}, status : {200}, n : ItemCounts]
        \cup [t : {"malformed"}, status : {200}, n : {0}]
        \cup [t : {"http"}, status : {403}, n : {0}]
        \cup [t : {"net", "timeout"}, status : {0}, n : {0}]

NoOutcome == [t |-> "none", status |-> 0, n |-> 0]
AuthFailed == [t |-> "auth", status |-> 0, n |-> 0]

\* the records the service holds in a collection
ServerItems(endpoint, n) == [j \in 1..n |-> [coll |-> endpoint, id |-> j]]

\* mutant of RaiseForStatus: error statuses are not raised
RaiseForStatus_Never(status) == FALSE

\* mutant of RaiseForStatus: only server errors are raised
RaiseForStatus_ServerOnly(status) == status >= 500

\* service.py:146  response.raise_for_status()
RaiseForStatus(status) == status < 200 \/ status > 299

Raised(err) == [raised |-> TRUE, err |-> err, value |-> <<>>]

\* service.py:142-147  what get() hands to its caller for a network outcome:
\* the decoded document, or the exception that propagates
GetResult(endpoint, out) ==
    IF out.t = "net" THEN Raised("NetworkError")
    ELSE IF out.t = "timeout" THEN Raised("Timeout")
    ELSE IF RaiseForStatus(out.status) THEN Raised("HttpError")
    ELSE IF out.t = "malformed" THEN Raised("MalformedResponse")
    ELSE [raised |-> FALSE, err |-> "",
          value |-> IF out.t = "ok" THEN ServerItems(endpoint, out.n)
                    ELSE <<>>]

(***************************************************************************)
(* Single-resource operations: get_headers, get, post and the accessors,   *)
(* called by concurrent tasks on sessions constructed directly.            *)
(***************************************************************************)
\* service.py:51  self.base_url, the configured ORCHESTRATOR_URL
base_url == "https://cloud.uipath.com/"

\* service.py:137-140  the URL get() requests
GetUrl(c, endpoint) == base_url \o Url(c, endpoint)

\* service.py:157  the URL post() requests
PostUrl(c, endpoint) ==
    base_url \o objs[c].account \o "/" \o objs[c].tenant \o "/" \o endpoint

\* service.py:120  f"Bearer {OrchestratorClient._access_token}"
Bearer(tok) == [scheme |-> "Bearer", token |-> tok]

\* mutant of GetHeaders: the tenant header names the account
GetHeaders_AccountAsTenant(c, f, account_level, tok) ==
    IF account_level
    THEN [Authorization |-> Bearer(tok), ContentType |-> "application/json",
          TenantName |-> objs[c].account]
    ELSE [Authorization |-> Bearer(tok), ContentType |-> "application/json",
          TenantName |-> objs[c].account,
          OrganizationUnitId |-> OrgUnit(c, f)]

\* service.py:119-130  the header dict get_headers builds while the class
\* slot holds tok.  The fields stand for Authorization, Content-Type,
\* X-UIPATH-TenantName and X-UIPATH-OrganizationUnitId.
GetHeaders(c, f, account_level, tok) ==
    IF account_level
    THEN [Authorization |-> Bearer(tok), ContentType |-> "application/json",
          TenantName |-> objs[c].tenant]
    ELSE [Authorization |-> Bearer(tok), ContentType |-> "application/json",
          TenantName |-> objs[c].tenant,
          OrganizationUnitId |-> OrgUnit(c, f)]

\* service.py:142-145  self.client.get(url, headers=self.get_headers(folder_id))
GetRequest(c, endpoint, f, tok) ==
    [method |-> "GET", url |-> GetUrl(c, endpoint),
     headers |-> GetHeaders(c, f, FALSE, tok)]

\* service.py:158-160  self.client.post(url, headers=self.get_headers(), ...)
PostRequest(c, endpoint, tok) ==
    [method |-> "POST", url |-> PostUrl(c, endpoint),
     headers |-> GetHeaders(c, NoFolder, FALSE, tok)]

NoWire == [method |-> "", url |-> "", headers |-> <<>>]

Accessors ==
    {"get_folders", "get_assets", "get_queues", "get_storage_buckets",
     "get_triggers", "get_processes", "list_libraries"}

\* service.py:287-300  the accessors that take a folder_id
FolderScoped ==
    {"get_assets", "get_queues", "get_storage_buckets", "get_triggers",
     "get_processes"}

\* service.py:284-309  the endpoint each accessor hands to get()
AccessorEndpoint(name) ==
    CASE name = "get_folders" -> "odata/Folders"
      [] name = "get_assets" -> "odata/Assets"
      [] name = "get_queues" -> "odata/QueueDefinitions"
      [] name = "get_storage_buckets" -> "odata/Buckets"
      [] name = "get_triggers" -> "odata/ProcessSchedules"
      [] name = "get_processes" -> "odata/Releases"
      [] name = "list_libraries" -> "odata/Libraries"

\* service.py:284-309  the folder_id each accessor hands to get()
AccessorFolder(name, id) ==
    IF name \in FolderScoped THEN Folder(id) ELSE NoFolder

\* the folder_id arguments: 0 and a folder of the tenant
FolderArgs == {0, 7}

\* the endpoints get() and post() are called with directly
GetEndpoints == {"odata/Robots"}
PostEndpoints == {"odata/Jobs/UiPath.Server.Configuration.OData.StartJobs"}

RECURSIVE SortedInts(_)
\* sorted(names) over a set of comparable values
SortedInts(S) ==
    IF S = {} THEN <<>>
    ELSE LET m == CHOOSE x \in S : \A y \in S : x <= y
         IN <<m>> \o SortedInts(S \ {m})

\* service.py:310-324  list_libraries: the sorted set of the "Id" of every
\* record of the document (search is None)
LibraryNames(items) == SortedInts({items[j].id : j \in DOMAIN items})

\* what the network can answer to a resource request of get() or post():
\* the outcomes above and two more statuses outside 2xx
Answers == Outcomes \cup [t : {"http"}, status : {300, 500}, n : {0}]

NoFrame ==
    [name |-> "none", client |-> 0, endpoint |-> "", folder |-> NoFolder,
     st |-> "idle", post |-> 0, sent |-> 0]

NoResult == [raised |-> FALSE, err |-> "", status |-> 0, value |-> <<>>]

\* the exception a call raises; httpx.HTTPStatusError carries the response
Failure(err, status) ==
    [raised |-> TRUE, err |-> err,
     status |-> IF err = "HttpError" THEN status ELSE 0, value |-> <<>>]

\* service.py:146-147, 161-162 and 310-324  what the call hands to its caller
Respond(name, endpoint, out) ==
    LET r == GetResult(endpoint, out)
    IN IF r.raised THEN Failure(r.err, out.status)
       ELSE [raised |-> FALSE, err |-> "", status |-> 0,
             value |-> IF name = "list_libraries" THEN LibraryNames(r.value)
                       ELSE r.value]

\* the caller is in no get() or post() call
Idle(p) == frame[p] = NoFrame

\* service.py:133-145 and 150-160 up to the first network call of get() or
\* post(): the token POST when the class slot is empty, the resource request
\* otherwise
Start(p, c, name, endpoint, f) ==
    /\ Idle(p)
    /\ c \in 1..Len(objs)
    /\ answer' = [answer EXCEPT ![p] = NoOutcome]
    /\ reply' = [reply EXCEPT ![p] = NoResult]
    /\ IF ~Truthy(access_token)
       THEN /\ Len(posts) < MaxPosts
            /\ posts' = PostToken(c)
            /\ nauth' = nauth + 1
            /\ frame' = [frame EXCEPT ![p] =
                           [name |-> name, client |-> c, endpoint |-> endpoint,
                            folder |-> f, st |-> "auth",
                            post |-> Len(posts) + 1, sent |-> 0]]
            /\ wire' = [wire EXCEPT ![p] = NoWire]
       ELSE /\ frame' = [frame EXCEPT ![p] =
                           [name |-> name, client |-> c, endpoint |-> endpoint,
                            folder |-> f, st |-> "sent",
                            post |-> 0, sent |-> 1]]
            /\ wire' = [wire EXCEPT ![p] =
                          IF name = "post"
                          THEN PostRequest(c, endpoint, access_token)
                          ELSE GetRequest(c, endpoint, f, access_token)]
            /\ UNCHANGED <<posts, nauth>>
    /\ UNCHANGED <<access_token, CLIENTS, objs, pc, call, ret>>
    /\ UNCHANGED <<aggVars, libVars, dlVars, prVars>>

\* service.py:133  client.get(endpoint, folder_id)
Get(p, c, endpoint, f) == Start(p, c, "get", endpoint, f)

\* service.py:150  client.post(endpoint, data)
Post(p, c, endpoint) == Start(p, c, "post", endpoint, NoFolder)

\* service.py:284-309  client.get_folders() .. client.list_libraries()
Accessor(p, c, name, id) ==
    Start(p, c, name, AccessorEndpoint(name), AccessorFolder(name, id))

\* service.py:92-97 then 137-145 / 157-160: the token arrives and is stored,
\* the call goes on to build its headers from the slot and sends its request
CallTokenOk(p) ==
    /\ frame[p].st = "auth"
    /\ access_token' = IssuedToken(frame[p].post)
    /\ frame' = [frame EXCEPT ![p].st = "sent", ![p].sent = @ + 1]
    /\ wire' = [wire EXCEPT ![p] =
                  IF frame[p].name = "post"
                  THEN PostRequest(frame[p].client, frame[p].endpoint,
                                   IssuedToken(frame[p].post))
                  ELSE GetRequest(frame[p].client, frame[p].endpoint,
                                  frame[p].folder,
                                  IssuedToken(frame[p].post))]
    /\ UNCHANGED <<CLIENTS, objs, pc, call, ret, posts, nauth>>
    /\ UNCHANGED <<answer, reply, aggVars, libVars, dlVars, prVars>>

\* service.py:92-93  the token request fails: the error leaves get()/post()
CallTokenFail(p) ==
    /\ frame[p].st = "auth"
    /\ frame' = [frame EXCEPT ![p] = NoFrame]
    /\ answer' = [answer EXCEPT ![p] = AuthFailed]
    /\ reply' = [reply EXCEPT ![p] = Failure("AuthError", 0)]
    /\ UNCHANGED <<wire, regVars, aggVars, libVars, dlVars, prVars>>

\* service.py:146-147 and 161-162  the network answers the resource request
\* and the call returns or raises
Response(p, out) ==
    /\ frame[p].st = "sent"
    /\ frame' = [frame EXCEPT ![p] = NoFrame]
    /\ wire' = [wire EXCEPT ![p] = NoWire]
    /\ answer' = [answer EXCEPT ![p] = out]
    /\ reply' = [reply EXCEPT ![p] =
                    Respond(frame[p].name, frame[p].endpoint, out)]
    /\ UNCHANGED <<regVars, aggVars, libVars, dlVars, prVars>>

\* service.py:105-130  client.get_headers(folder_id, account_level): no
\* network call; raises when the class slot is empty
CallGetHeaders(p, c, f, account_level) ==
    /\ Idle(p)
    /\ c \in 1..Len(objs)
    /\ answer' = [answer EXCEPT ![p] = NoOutcome]
    /\ reply' = [reply EXCEPT ![p] =
                    IF ~Truthy(access_token)
                    THEN Failure("RuntimeError", 0)
                    ELSE [raised |-> FALSE, err |-> "", status |-> 0,
                          value |-> <<GetHeaders(c, f, account_level,
                                                 access_token)>>]]
    /\ UNCHANGED <<frame, wire, regVars, aggVars, libVars, dlVars, prVars>>

(***************************************************************************)
(* list_library_versions: the NuGet v3 feed of the tenant.                 *)
(***************************************************************************)
MaxResources == 2
MaxVersions == 3

\* the capability looked for in the service index
PackageBaseAddress == "PackageBaseAddress/3.0.0"

\* the "@type" of a resource entry: absent, a string, or a list of strings
NoType == [kind |-> "absent", tags |-> <<>>]
StrType(tag) == [kind |-> "str", tags |-> <<tag>>]
ListType(tags) == [kind |-> "list", tags |-> tags]

TypeValues ==
    {NoType, StrType(PackageBaseAddress), StrType("SearchQueryService"),
     ListType(<<"PackageBaseAddress/3.6.0", PackageBaseAddress>>),
     ListType(<<"RegistrationsBaseUrl">>)}

\* the "@id" of a resource entry: absent, or a string written as its text
\* without trailing slashes and the number of trailing slashes
NoId == [present |-> FALSE, stem |-> "", slashes |-> 0]
Id(stem, n) == [present |-> TRUE, stem |-> stem, slashes |-> n]

IdValues ==
    {NoId, Id("", 0), Id("https://feed/flat", 0), Id("https://feed/flat", 1),
     Id("https://feed/flat2", 0)}

ResourceValues == [type : TypeValues, id : IdValues]

\* the service-index documents: the "resources" key absent, or a list
Indexes ==
    {[has |-> FALSE, resources |-> <<>>]}
        \cup {[has |-> TRUE, resources |-> rs] :
                 rs \in UNION {[1..n -> ResourceValues] : n \in 0..MaxResources}}

\* the service indexes with at most one resource entry
ShortIndexes ==
    {[has |-> FALSE, resources |-> <<>>]}
        \cup {[has |-> TRUE, resources |-> rs] :
                 rs \in UNION {[1..n -> ResourceValues] : n \in 0..1}}

\* service.py:355  index.get("resources", [])
Resources(index) == IF index.has THEN index.resources ELSE <<>>

\* service.py:357-359  the type tag is, or is a list that includes, the
\* capability
MatchesType(t) ==
    \/ t.kind = "str" /\ t.tags[1] = PackageBaseAddress
    \/ t.kind = "list" /\ PackageBaseAddress \in Range(t.tags)

\* mutant of FirstMatch: the scan keeps the last matching entry
FirstMatch_Last(rs) ==
    LET M == {i \in DOMAIN rs : MatchesType(rs[i].type)}
    IN IF M = {} THEN 0 ELSE CHOOSE i \in M : \A j \in M : j <= i

\* service.py:355-361  the loop stops at the first matching entry (0: none)
FirstMatch(rs) ==
    LET M == {i \in DOMAIN rs : MatchesType(rs[i].type)}
    IN IF M = {} THEN 0 ELSE CHOOSE i \in M : \A j \in M : i <= j

\* Python truthiness of a string
IdTruthy(id) == id.stem # "" \/ id.slashes > 0

\* mutant of LocatePackageBaseAddress: a base address is always produced
LocatePackageBaseAddress_AlwaysFound(index) ==
    [err |-> "", addr |-> Id("https://feed/flat", 0)]

\* service.py:353-364  locating the flat-container address: res["@id"] of
\* the first match (KeyError when the entry has none), and the not-found
\* error when base_addr is falsy
LocatePackageBaseAddress(index) ==
    LET rs == Resources(index)
        i == FirstMatch(rs)
    IN IF i = 0 THEN [err |-> "NotAdvertised", addr |-> NoId]
       ELSE IF ~rs[i].id.present THEN [err |-> "KeyError", addr |-> NoId]
       ELSE IF ~IdTruthy(rs[i].id) THEN [err |-> "NotAdvertised", addr |-> NoId]
       ELSE [err |-> "", addr |-> rs[i].id]

\* service.py:368  base_addr.rstrip('/')
Rstrip(id) == [id EXCEPT !.slashes = 0]

PackageIds == {"UiPath.Excel.Activities", "acme.lib"}

\* service.py:367  package_id.lower()
PackageLower(package_id) ==
    IF package_id = "UiPath.Excel.Activities" THEN "uipath.excel.activities"
    ELSE package_id

\* os.getenv("LIBRARIES_FEED_ID"): unset, or the id of the feed
FeedIds == {"", "feed-1"}

\* service.py:338-341
IndexUrl(c, feed_id) ==
    base_url \o objs[c].account \o "/" \o objs[c].tenant
        \o "/orchestrator_/nuget/v3/" \o feed_id \o "/index.json"

\* service.py:368
VersionsUrl(base_addr, package_id) ==
    Rstrip(base_addr).stem \o "/" \o PackageLower(package_id) \o "/index.json"

\* A version string is the sequence of its characters.
\* the code point of a character
Ord(ch) ==
    CASE ch = "-" -> 45 [] ch = "." -> 46 [] ch = "0" -> 48 [] ch = "1" -> 49
      [] ch = "2" -> 50 [] ch = "B" -> 66 [] ch = "a" -> 97 [] ch = "b" -> 98

RECURSIVE StrLess(_, _)
\* Python's < on str: lexicographic by code point
StrLess(a, b) ==
    IF b = <<>> THEN FALSE
    ELSE IF a = <<>> THEN TRUE
    ELSE IF Ord(Head(a)) # Ord(Head(b)) THEN Ord(Head(a)) < Ord(Head(b))
    ELSE StrLess(Tail(a), Tail(b))

RECURSIVE Insert_Dedup(_, _)
\* mutant of InsertSorted: a version already present is not inserted again
Insert_Dedup(v, sq) ==
    IF sq = <<>> THEN <<v>>
    ELSE IF v = Head(sq) THEN sq
    ELSE IF StrLess(v, Head(sq)) THEN <<v>> \o sq
    ELSE <<Head(sq)>> \o Insert_Dedup(v, Tail(sq))

RECURSIVE InsertSorted(_, _)
\* v placed after the elements of the sorted sq that are not greater (stable)
InsertSorted(v, sq) ==
    IF sq = <<>> THEN <<v>>
    ELSE IF StrLess(v, Head(sq)) THEN <<v>> \o sq
    ELSE <<Head(sq)>> \o InsertSorted(v, Tail(sq))

\* mutant of Sorted: the versions are handed back in the feed's order
Sorted_FeedOrder(sq) == sq

RECURSIVE Sorted(_)
\* service.py:378  sorted(versions): ascending, stable
Sorted(sq) ==
    IF sq = <<>> THEN <<>>
    ELSE InsertSorted(sq[Len(sq)], Sorted(SubSeq(sq, 1, Len(sq) - 1)))

VersionStrings ==
    {<<"1", ".", "2">>, <<"1", ".", "1", "0">>, <<"1", "-", "B">>,
     <<"1", "-", "a">>, <<"1", "-", "b">>}

\* the versions documents: the "versions" key absent, or a list
VersionDocs ==
    {[has |-> FALSE, versions |-> <<>>]}
        \cup {[has |-> TRUE, versions |-> vs] :
                 vs \in UNION {[1..n -> VersionStrings] : n \in 0..MaxVersions}}

\* service.py:374  data.get("versions", [])
Versions(data) == IF data.has THEN data.versions ELSE <<>>

\* what the feed can answer to a GET: a 2xx JSON document, a 2xx body that
\* is not JSON, an error status, a transport error or the timeout
FeedFailures ==
    [t : {"malformed"}, status : {200}] \cup [t : {"http"}, status : {404}]
        \cup [t : {"net", "timeout"}, status : {0}]

NoRun ==
    [st |-> "idle", client |-> 0, package_id |-> "", feed_id |-> "",
     post |-> 0, base_addr |-> NoId]
NoDoc == [has |-> FALSE]
NoFinal == [done |-> FALSE, raised |-> FALSE, err |-> "", value |-> <<>>]
Raise(err) == [done |-> TRUE, raised |-> TRUE, err |-> err, value |-> <<>>]
Return(value) == [done |-> TRUE, raised |-> FALSE, err |-> "", value |-> value]

\* service.py:343-349  the index request, with the bearer token of the slot
IndexCall(c, feed_id, tok) ==
    [stage |-> "index", url |-> IndexUrl(c, feed_id), bearer |-> tok,
     ans |-> "", status |-> 0]

\* service.py:368-370  the versions request, with the same headers
VersionsCall(base_addr, package_id, tok) ==
    [stage |-> "versions", url |-> VersionsUrl(base_addr, package_id),
     bearer |-> tok, ans |-> "", status |-> 0]

TokenCall ==
    [stage |-> "token", url |-> base_url \o "identity_/connect/token",
     bearer |-> None, ans |-> "", status |-> 0]

\* the error a failed GET raises (service.py:349-351 and 370-372)
FeedError(out) ==
    IF out.t = "net" THEN "NetworkError"
    ELSE IF out.t = "timeout" THEN "Timeout"
    ELSE IF RaiseForStatus(out.status) THEN "HttpError"
    ELSE IF out.t = "malformed" THEN "MalformedResponse"
    ELSE ""

\* the log once the call in flight is answered (ans = "": not yet answered)
Answered(ans, status) ==
    [calls EXCEPT ![Len(calls)].ans = ans, ![Len(calls)].status = status]

\* service.py:326-349 after the token is there: the feed id is read and the
\* index request issued, or the call raises because no feed id is set
ResolveIndex(c, package_id, feed_id, tok, log) ==
    IF feed_id = ""
    THEN /\ run' = NoRun
         /\ final' = Raise("FeedIdNotSet")
         /\ calls' = log
    ELSE /\ run' = [st |-> "index", client |-> c, package_id |-> package_id,
                    feed_id |-> feed_id, post |-> 0, base_addr |-> NoId]
         /\ final' = NoFinal
         /\ calls' = Append(log, IndexCall(c, feed_id, tok))

\* service.py:326-349  list_library_versions(package_id) up to its first
\* network call
ListLibraryVersions(c, package_id, feed_id) ==
    /\ run = NoRun
    /\ c \in 1..Len(objs)
    /\ feeddoc' = NoDoc
    /\ IF ~Truthy(access_token)
       THEN /\ Len(posts) < MaxPosts
            /\ posts' = PostToken(c)
            /\ nauth' = nauth + 1
            /\ run' = [st |-> "auth", client |-> c, package_id |-> package_id,
                       feed_id |-> feed_id, post |-> Len(posts) + 1,
                       base_addr |-> NoId]
            /\ calls' = <<TokenCall>>
            /\ final' = NoFinal
       ELSE /\ ResolveIndex(c, package_id, feed_id, access_token, <<>>)
            /\ UNCHANGED <<posts, nauth>>
    /\ UNCHANGED <<access_token, CLIENTS, objs, pc, call, ret>>
    /\ UNCHANGED <<aggVars, httpVars, dlVars, prVars>>

\* service.py:92-97 then 333-349  the token arrives
LibTokenOk ==
    /\ run.st = "auth"
    /\ access_token' = IssuedToken(run.post)
    /\ ResolveIndex(run.client, run.package_id, run.feed_id,
                    IssuedToken(run.post), Answered("ok", 200))
    /\ UNCHANGED <<CLIENTS, objs, pc, call, ret, posts, nauth>>
    /\ UNCHANGED <<feeddoc, aggVars, httpVars, dlVars, prVars>>

\* service.py:92-93  the token request fails
LibTokenFail ==
    /\ run.st = "auth"
    /\ run' = NoRun
    /\ calls' = Answered("http", 401)
    /\ final' = Raise("AuthError")
    /\ UNCHANGED <<feeddoc, regVars, aggVars, httpVars, dlVars, prVars>>

\* service.py:349-351 and 370-372  a GET of the call fails
FeedFail(out) ==
    /\ run.st \in {"index", "versions"}
    /\ run' = NoRun
    /\ calls' = Answered(out.t, out.status)
    /\ final' = Raise(FeedError(out))
    /\ UNCHANGED <<feeddoc, regVars, aggVars, httpVars, dlVars, prVars>>

\* service.py:349-370  the service index arrives: the base address is
\* located and the versions request issued, or the call raises
IndexResponse(index) ==
    /\ run.st = "index"
    /\ feeddoc' = index
    /\ LET loc == LocatePackageBaseAddress(index)
       IN IF loc.err # ""
          THEN /\ run' = NoRun
               /\ calls' = Answered("ok", 200)
               /\ final' = Raise(loc.err)
          ELSE /\ run' = [run EXCEPT !.st = "versions", !.base_addr = loc.addr]
               /\ calls' = Append(Answered("ok", 200),
                                  VersionsCall(loc.addr, run.package_id,
                                               calls[Len(calls)].bearer))
               /\ final' = NoFinal
    /\ UNCHANGED <<regVars, aggVars, httpVars, dlVars, prVars>>

\* service.py:353-364 on its own: the scan of a service index for the base
\* address, returned or refused
Locate ==
    /\ run = NoRun
    /\ ~final.done
    /\ feeddoc \in Indexes
    /\ LET loc == LocatePackageBaseAddress(feeddoc)
       IN final' = IF loc.err # "" THEN Raise(loc.err)
                   ELSE Return(<<loc.addr>>)
    /\ UNCHANGED <<run, calls, feeddoc, regVars, aggVars, httpVars, dlVars, prVars>>

\* service.py:370-378  the versions document arrives: the call returns the
\* sorted versions or raises when there are none
VersionsResponse(data) ==
    /\ run.st = "versions"
    /\ feeddoc' = data
    /\ run' = NoRun
    /\ calls' = Answered("ok", 200)
    /\ final' = IF Versions(data) = <<>> THEN Raise("NoVersions")
                ELSE Return(Sorted(Versions(data)))
    /\ UNCHANGED <<regVars, aggVars, httpVars, dlVars, prVars>>

(***************************************************************************)
(* download_library_version (server.py:175-200, test.py:483-501).  The     *)
(* method of the client is not among the sources; it is modelled from the  *)
(* written specification (section 4.5, download): GET the artifact, write  *)
(* the body to a temporary name, rename it to the final path on success,   *)
(* remove it on failure.                                                   *)
(***************************************************************************)
MaxBytes == 2
MaxDownloads == 3

download_dir == "downloads"

VersionArgs == {"1.0.5", "2.0.0-Beta"}

\* version.lower()
VersionLower(version) == IF version = "2.0.0-Beta" THEN "2.0.0-beta" ELSE version

\* {base_address}/{package_id_lower}/{version_lower}/{package_id_lower}.{version_lower}.nupkg
ArtifactUrl(base_addr, package_id, version) ==
    Rstrip(base_addr).stem \o "/" \o PackageLower(package_id) \o "/"
        \o VersionLower(version) \o "/" \o PackageLower(package_id) \o "."
        \o VersionLower(version) \o ".nupkg"

\* {download_dir}/{package_id}.{version}.nupkg
FinalPath(package_id, version) ==
    download_dir \o "/" \o package_id \o "." \o version \o ".nupkg"

\* the temporary name the body is written under
TempPath(package_id, version) == FinalPath(package_id, version) \o ".part"

Paths ==
    UNION {{FinalPath(p, v), TempPath(p, v)} :
              p \in PackageIds, v \in VersionArgs}

\* the body is written in place, at the final path
WritePath_InPlace(package_id, version) == FinalPath(package_id, version)

\* the path the body is written to while it is incomplete
WritePath(package_id, version) == TempPath(package_id, version)

\* a file: the bytes it holds, the length of the body it is a copy of and the
\* download that wrote it
NoFile == [exists |-> FALSE, size |-> 0, body |-> 0, by |-> 0]
File(size, body, by) == [exists |-> TRUE, size |-> size, body |-> body, by |-> by]

NoDownload ==
    [st |-> "idle", id |-> 0, package_id |-> "", version |-> "", url |-> "",
     body |-> 0]
NoArtifact ==
    [done |-> FALSE, raised |-> FALSE, id |-> 0, package_id |-> "",
     version |-> "", local_path |-> "", byte_size |-> 0, body |-> 0]
DownloadError(d) ==
    [done |-> TRUE, raised |-> TRUE, id |-> d.id, package_id |-> d.package_id,
     version |-> d.version, local_path |-> "", byte_size |-> 0,
     body |-> d.body]

\* the base address the feed advertises
FlatContainer == Id("https://feed/flat", 1)

\* download(package_id, version) up to the GET of the artifact
Download(package_id, version) ==
    /\ dl = NoDownload
    /\ ndl < MaxDownloads
    /\ ndl' = ndl + 1
    /\ dl' = [st |-> "get", id |-> ndl + 1, package_id |-> package_id,
              version |-> version,
              url |-> ArtifactUrl(FlatContainer, package_id, version),
              body |-> 0]
    /\ artifact' = NoArtifact
    /\ UNCHANGED <<disk, regVars, aggVars, httpVars, libVars, prVars>>

\* the GET fails (non-2xx, transport error or timeout): nothing is written
ArtifactFail(out) ==
    /\ dl.st = "get"
    /\ dl' = NoDownload
    /\ artifact' = DownloadError(dl)
    /\ UNCHANGED <<disk, ndl, regVars, aggVars, httpVars, libVars, prVars>>

\* the GET answers 2xx with a body of n bytes: the file is opened for writing
ArtifactOk(n) ==
    /\ dl.st = "get"
    /\ dl' = [dl EXCEPT !.st = "writing", !.body = n]
    /\ disk' = [disk EXCEPT ![WritePath(dl.package_id, dl.version)] =
                   File(0, n, dl.id)]
    /\ UNCHANGED <<ndl, artifact, regVars, aggVars, httpVars, libVars, prVars>>

\* one more byte of the body reaches the file
WriteByte ==
    /\ dl.st = "writing"
    /\ disk[WritePath(dl.package_id, dl.version)].size < dl.body
    /\ disk' = [disk EXCEPT ![WritePath(dl.package_id, dl.version)].size = @ + 1]
    /\ UNCHANGED <<dl, ndl, artifact, regVars, aggVars, httpVars, libVars, prVars>>

\* a write fails, at any point: the file being written is removed
WriteFail ==
    /\ dl.st = "writing"
    /\ disk' = [disk EXCEPT ![WritePath(dl.package_id, dl.version)] = NoFile]
    /\ dl' = NoDownload
    /\ artifact' = DownloadError(dl)
    /\ UNCHANGED <<ndl, regVars, aggVars, httpVars, libVars, prVars>>

\* the whole body is written: the file takes the final path and the
\* artifact is returned with the size of the file
Persist ==
    /\ dl.st = "writing"
    /\ disk[WritePath(dl.package_id, dl.version)].size = dl.body
    /\ LET written == disk[WritePath(dl.package_id, dl.version)]
           final_path == FinalPath(dl.package_id, dl.version)
       IN /\ disk' = [[disk EXCEPT ![WritePath(dl.package_id, dl.version)] =
                          NoFile]
                      EXCEPT ![final_path] = written]
          /\ artifact' = [done |-> TRUE, raised |-> FALSE, id |-> dl.id,
                          package_id |-> dl.package_id, version |-> dl.version,
                          local_path |-> final_path,
                          byte_size |-> written.size, body |-> dl.body]
    /\ dl' = NoDownload
    /\ UNCHANGED <<ndl, regVars, aggVars, httpVars, libVars, prVars>>

(***************************************************************************)
(* Feed-index probing: _nuget_headers, _candidate_nuget_index_urls and     *)
(* _get_first_working_json (service.py:166-278).                           *)
(***************************************************************************)
MaxUrls == 3

\* service.py:186  os.getenv("NUGET_API_KEY"): unset, or the key
ApiKeys == {"", "key-1"}

\* service.py:173-190  Accept always; the bearer token when the slot holds
\* one; the tenant; the API key when set ("" stands for an absent header)
NugetHeaders(c, tok, nuget_key) ==
    [Accept |-> "application/json",
     Authorization |-> IF Truthy(tok) THEN Bearer(tok) ELSE Bearer(None),
     TenantName |-> objs[c].tenant,
     ApiKey |-> nuget_key]

\* service.py:197  (self.base_url or "").rstrip("/")
BaseStripped == "https://cloud.uipath.com"

\* service.py:207-229  the URL shapes, in the order they are appended
UrlShapes(c, feed_id) ==
    LET base == BaseStripped
        org == objs[c].account
        tenant == objs[c].tenant
    IN <<base \o "/" \o org \o "/" \o tenant
             \o "/nuget/activities/v3/index.json",
         base \o "/" \o org \o "/" \o tenant
             \o "/nuget/activities/api/v3/index.json",
         base \o "/" \o org \o "/nuget/activities/v3/index.json",
         base \o "/" \o org \o "/nuget/activities/api/v3/index.json">>
       \o (IF feed_id # ""
           THEN <<base \o "/" \o org \o "/" \o tenant \o "/nuget/v3/"
                      \o feed_id \o "/index.json",
                  base \o "/" \o org \o "/nuget/v3/" \o feed_id
                      \o "/index.json">>
           ELSE <<>>)
       \o <<base \o "/" \o org \o "/" \o tenant \o "/nuget/v3/index.json",
            base \o "/" \o org \o "/nuget/v3/index.json">>

\* service.py:231-238  remove duplicates, keeping the first occurrence
RECURSIVE Dedupe(_, _)
Dedupe(urls, deduped) ==
    IF urls = <<>> THEN deduped
    ELSE Dedupe(Tail(urls),
                IF Head(urls) \in Range(deduped) THEN deduped
                ELSE Append(deduped, Head(urls)))

\* service.py:192-238
CandidateNugetIndexUrls(c, feed_id) == Dedupe(UrlShapes(c, feed_id), <<>>)

\* the documents a feed index may hold
IndexDocs == {"index-a", "index-b"}

\* the location header of a redirect (service.py:256)
Location(status) == IF status = 302 THEN "portal_/unregistered" ELSE ""

\* what a candidate can answer: 200 with a JSON document, 200 with a body
\* that is not JSON, another status, a transport error or the timeout
ProbeAnswers ==
    [t : {"ok"}, status : {200}, doc : IndexDocs]
        \cup [t : {"malformed"}, status : {200}, doc : {""}]
        \cup [t : {"http"}, status : {204, 302, 404}, doc : {""}]
        \cup [t : {"net", "timeout"}, status : {0}, doc : {""}]

\* the type name of the exception an answer raises in the try block
ExcName(out) ==
    IF out.t = "net" THEN "ConnectError"
    ELSE IF out.t = "timeout" THEN "ReadTimeout"
    ELSE IF out.t = "malformed" THEN "JSONDecodeError"
    ELSE ""

\* service.py:256  (url, r.status_code, r.headers.get("location"))
StatusAttempt(url, status) ==
    [url |-> url, status |-> status, exc |-> "", extra |-> Location(status)]

\* service.py:262  (url, f"EXC:{type(e).__name__}", str(e))
ExcAttempt(url, name) ==
    [url |-> url, status |-> 0, exc |-> "EXC:" \o name, extra |-> name]

\* service.py:248-262  what one answer adds to the attempts: the status when
\* a response arrived, and the exception when the try block raised (in the
\* GET, or in r.json() after the status was recorded)
Recorded(url, out) ==
    (IF out.t \in {"net", "timeout"} THEN <<>>
     ELSE <<StatusAttempt(url, out.status)>>)
    \o (IF ExcName(out) # "" THEN <<ExcAttempt(url, ExcName(out))>> ELSE <<>>)

\* mutant of IsWorking: every 2xx status is taken for a working endpoint
IsWorking_Any2xx(status) == status >= 200 /\ status <= 299

\* service.py:258  if r.status_code == 200
IsWorking(status) == status = 200

\* service.py:259  return url, r.json()   (reached when r.json() returns)
Returns(out) == out.t \notin {"net", "timeout"} /\ IsWorking(out.status)
                    /\ out.t # "malformed"

NoProbe == [st |-> "idle", client |-> 0, urls |-> <<>>, nuget_key |-> ""]
NoFound ==
    [done |-> FALSE, raised |-> FALSE, url |-> "", json |-> "", lines |-> <<>>]

\* service.py:249-253  the GET to one candidate (ans: not yet answered)
ProbeRequest(c, url, tok, nuget_key) ==
    [url |-> url, headers |-> NugetHeaders(c, tok, nuget_key),
     redirects |-> FALSE, ans |-> [t |-> "none", status |-> 0, doc |-> ""]]

\* service.py:264-278  the RuntimeError and the lines of its message
ProbeError(tried) ==
    [done |-> TRUE, raised |-> TRUE, url |-> "", json |-> "", lines |-> tried]

\* service.py:240-253  _get_first_working_json(urls) up to its first GET, or
\* to the raise when the list is empty
GetFirstWorkingJson(c, urls, nuget_key) ==
    /\ probe = NoProbe
    /\ c \in 1..Len(objs)
    /\ attempts' = <<>>
    /\ IF urls = <<>>
       THEN /\ probe' = [st |-> "done", client |-> c, urls |-> urls,
                         nuget_key |-> nuget_key]
            /\ requests' = <<>>
            /\ found' = ProbeError(<<>>)
       ELSE /\ probe' = [st |-> "get", client |-> c, urls |-> urls,
                         nuget_key |-> nuget_key]
            /\ requests' = <<ProbeRequest(c, urls[1], access_token,
                                          nuget_key)>>
            /\ found' = NoFound
    /\ UNCHANGED <<regVars, aggVars, httpVars, libVars, dlVars>>

\* service.py:254-278  one candidate answers: the attempt is recorded, then
\* the call returns, goes on to the next candidate, or raises after the last
ProbeAnswer(out) ==
    /\ probe.st = "get"
    /\ LET i == Len(requests)
           url == probe.urls[i]
           tried == attempts \o Recorded(url, out)
           asked == [requests EXCEPT ![i].ans = out]
       IN /\ attempts' = tried
          /\ IF Returns(out)
             THEN /\ found' = [done |-> TRUE, raised |-> FALSE, url |-> url,
                               json |-> out.doc, lines |-> <<>>]
                  /\ requests' = asked
                  /\ probe' = [probe EXCEPT !.st = "done"]
             ELSE IF i < Len(probe.urls)
             THEN /\ requests' =
                        Append(asked,
                               ProbeRequest(probe.client, probe.urls[i + 1],
                                            access_token, probe.nuget_key))
                  /\ UNCHANGED <<probe, found>>
             ELSE /\ found' = ProbeError(tried)
                  /\ requests' = asked
                  /\ probe' = [probe EXCEPT !.st = "done"]
    /\ UNCHANGED <<regVars, aggVars, httpVars, libVars, dlVars>>

(***************************************************************************)
(* get_resources: the multi-resource aggregated fetch (test.py:149-163).   *)
(* One sub-fetch per requested kind, run concurrently; the response holds  *)
(* result["resources"][kind] = {"items": [...]} or {"error": "..."}.       *)
(***************************************************************************)
Kinds == {"assets", "queues", "triggers", "processes"}

FolderIds == {7}

\* the requests: ordered sequences of distinct kinds
Requests ==
    {r \in UNION {[1..n -> Kinds] : n \in 1..MaxReq} :
        \A i \in DOMAIN r, j \in DOMAIN r : r[i] = r[j] => i = j}

NoFetch == [active |-> FALSE, client |-> 0, req |-> <<>>, folder |-> NoFolder]
NoResp == [done |-> FALSE, resources |-> <<>>]
Pending == [pending |-> TRUE]
NoRequest == [url |-> "", endpoint |-> "", bearer |-> None, tenant |-> "",
              unit |-> ""]

\* the entry a settled sub-fetch contributes
Settle(result) ==
    IF result.raised THEN [error |-> result.err]
    ELSE [items |-> result.value]

\* mutant of BuildMap: kinds that failed are left out of the response
BuildMap_DropFailures ==
    SelectSeq([i \in 1..Len(fetch.req) |->
                  [kind |-> fetch.req[i], entry |-> entry[i]]],
              LAMBDA e : "error" \notin DOMAIN e.entry)

\* mutant of BuildMap: entries are inserted as the sub-fetches complete
BuildMap_ByCompletion ==
    [j \in 1..Len(order) |->
        [kind |-> fetch.req[order[j]], entry |-> entry[order[j]]]]

\* the response map: one entry per requested kind, in request order
BuildMap ==
    [i \in 1..Len(fetch.req) |-> [kind |-> fetch.req[i], entry |-> entry[i]]]

AllSettled == \A i \in DOMAIN task : task[i].st = "done"

\* get_resources(resource_types, folder_id) is called on a session.  The
\* sub-fetches are created together and the event loop runs each, in request
\* order, up to its first network call before any answer is processed
\* (service.py:133-145 through the accessors, service.py:287-300): that call
\* is the token POST when no token is cached and the resource GET otherwise.
FetchStart(c, kinds, id) ==
    /\ fetch = NoFetch
    /\ c \in 1..Len(objs)
    /\ fetch' = [active |-> TRUE, client |-> c, req |-> kinds,
                 folder |-> Folder(id)]
    /\ entry' = [i \in 1..Len(kinds) |-> Pending]
    /\ outcome' = [i \in 1..Len(kinds) |-> NoOutcome]
    /\ IF ~Truthy(access_token) /\ ~TokenCached
       THEN /\ nauth' = nauth + Len(kinds)
            /\ posts' = posts \o [i \in 1..Len(kinds) |-> Credentials(c)]
            /\ task' = [i \in 1..Len(kinds) |->
                          [st |-> "auth", post |-> Len(posts) + i]]
            /\ gets' = [i \in 1..Len(kinds) |-> NoRequest]
       ELSE /\ gets' = [i \in 1..Len(kinds) |->
                          Request(c, Endpoint(kinds[i]), Folder(id),
                                  access_token)]
            /\ task' = [i \in 1..Len(kinds) |-> [st |-> "get", post |-> 0]]
            /\ UNCHANGED <<nauth, posts>>
    /\ UNCHANGED <<access_token, CLIENTS, objs, pc, call, ret>>
    /\ UNCHANGED <<order, resp, extVars>>

\* service.py:92-97 then 137-145: the token arrives, get() goes on to its GET
SubTokenOk(i) ==
    /\ fetch.active
    /\ i \in DOMAIN task
    /\ task[i].st = "auth"
    /\ access_token' = IssuedToken(task[i].post)
    /\ gets' = [gets EXCEPT ![i] =
                  Request(fetch.client, Endpoint(fetch.req[i]), fetch.folder,
                          IssuedToken(task[i].post))]
    /\ task' = [task EXCEPT ![i].st = "get"]
    /\ UNCHANGED <<CLIENTS, objs, pc, call, ret, posts, nauth>>
    /\ UNCHANGED <<fetch, entry, outcome, order, resp, extVars>>

\* service.py:92-93: the token request fails inside get(); the sub-fetch
\* settles with the error
SubTokenFail(i) ==
    /\ fetch.active
    /\ i \in DOMAIN task
    /\ task[i].st = "auth"
    /\ task' = [task EXCEPT ![i].st = "done"]
    /\ entry' = [entry EXCEPT ![i] = Settle(Raised("AuthError"))]
    /\ outcome' = [outcome EXCEPT ![i] = AuthFailed]
    /\ order' = Append(order, i)
    /\ UNCHANGED <<fetch, gets, resp, regVars, extVars>>

\* service.py:142-147: the network answers the GET of the i-th sub-fetch,
\* which settles with the items or with the error
SubResponse(i, out) ==
    /\ fetch.active
    /\ i \in DOMAIN task
    /\ task[i].st = "get"
    /\ task' = [task EXCEPT ![i].st = "done"]
    /\ entry' = [entry EXCEPT ![i] =
                   Settle(GetResult(Endpoint(fetch.req[i]), out))]
    /\ outcome' = [outcome EXCEPT ![i] = out]
    /\ order' = Append(order, i)
    /\ UNCHANGED <<fetch, gets, resp, regVars, extVars>>

\* every sub-fetch has settled: the whole map is returned at once
FetchReturn ==
    /\ fetch.active
    /\ AllSettled
    /\ resp' = [done |-> TRUE, resources |-> BuildMap]
    /\ fetch' = [fetch EXCEPT !.active = FALSE]
    /\ UNCHANGED <<task, entry, outcome, order, gets, regVars, extVars>>

RegInit ==
    /\ access_token = None
    /\ CLIENTS = <<>>
    /\ objs = <<>>
    /\ pc = [p \in Callers |-> "idle"]
    /\ call = [p \in Callers |-> NoCall]
    /\ ret = [p \in Callers |-> NoRet]
    /\ posts = <<>>
    /\ nauth = 0

AggIdle ==
    /\ fetch = NoFetch
    /\ task = <<>>
    /\ entry = <<>>
    /\ outcome = <<>>
    /\ order = <<>>
    /\ gets = <<>>
    /\ resp = NoResp

HttpIdle ==
    /\ frame = [p \in Callers |-> NoFrame]
    /\ wire = [p \in Callers |-> NoWire]
    /\ answer = [p \in Callers |-> NoOutcome]
    /\ reply = [p \in Callers |-> NoResult]

LibIdle ==
    /\ run = NoRun
    /\ calls = <<>>
    /\ feeddoc = NoDoc
    /\ final = NoFinal

DlIdle ==
    /\ dl = NoDownload
    /\ disk = [path \in Paths |-> NoFile]
    /\ ndl = 0
    /\ artifact = NoArtifact

PrIdle ==
    /\ probe = NoProbe
    /\ attempts = <<>>
    /\ requests = <<>>
    /\ found = NoFound

ExtIdle == HttpIdle /\ LibIdle /\ DlIdle /\ PrIdle

Init == RegInit /\ AggIdle /\ ExtIdle

Next ==
    \/ \E p \in Callers, a \in AccountArgs, t \in TenantArgs :
            GetClient(p, a, t)
    \/ \E p \in Callers, c \in 1..MaxClients : Authenticate(p, c)
    \/ \E p \in Callers : TokenOk(p)
    \/ \E p \in Callers : TokenFail(p)

Spec == Init /\ [][Next]_vars

(***************************************************************************)
(* The aggregated fetch on one session, constructed directly (test.py:127) *)
(* and either already authenticated (test.py:130) or not yet.              *)
(***************************************************************************)
AggInit ==
    /\ objs = <<[account |-> "acme", tenant |-> "DEV", madeFor |-> "direct"]>>
    /\ \/ access_token = None /\ posts = <<>> /\ nauth = 0
       \/ /\ access_token = [cred |-> "acme", serial |-> 1]
          /\ posts = <<"acme">>
          /\ nauth = 1
    /\ CLIENTS = <<>>
    /\ pc = [p \in Callers |-> "idle"]
    /\ call = [p \in Callers |-> NoCall]
    /\ ret = [p \in Callers |-> NoRet]
    /\ AggIdle
    /\ ExtIdle

AggNext ==
    \/ \E c \in 1..MaxClients, kinds \in Requests, id \in FolderIds :
            FetchStart(c, kinds, id)
    \/ \E i \in 1..MaxReq : SubTokenOk(i)
    \/ \E i \in 1..MaxReq : SubTokenFail(i)
    \/ \E i \in 1..MaxReq, out \in Outcomes : SubResponse(i, out)
    \/ FetchReturn

SpecAgg == AggInit /\ [][AggNext]_vars

(***************************************************************************)
(* The single-resource operations on one session: constructed directly and *)
(* not yet authenticated (test.py:127), or handed out by get_client, which *)
(* has authenticated and registered it (server.py:30-31).                  *)
(***************************************************************************)
HttpInit ==
    /\ \/ /\ objs = <<[account |-> "acme", tenant |-> "PROD",
                         madeFor |-> "direct"]>>
          /\ CLIENTS = <<>>
          /\ access_token = None /\ posts = <<>> /\ nauth = 0
       \/ /\ objs = <<[account |-> "acme", tenant |-> "PROD",
                         madeFor |-> Key("acme", "PROD")]>>
          /\ CLIENTS = Key("acme", "PROD") :> 1
          /\ access_token = [cred |-> "acme", serial |-> 1]
          /\ posts = <<"acme">>
          /\ nauth = 1
    /\ pc = [p \in Callers |-> "idle"]
    /\ call = [p \in Callers |-> NoCall]
    /\ ret = [p \in Callers |-> NoRet]
    /\ AggIdle
    /\ ExtIdle

FolderInputs == {NoFolder} \cup {Folder(id) : id \in FolderArgs}

HttpNext ==
    \/ \E p \in Callers, c \in 1..MaxClients, e \in GetEndpoints,
          f \in FolderInputs : Get(p, c, e, f)
    \/ \E p \in Callers, c \in 1..MaxClients, e \in PostEndpoints :
            Post(p, c, e)
    \/ \E p \in Callers, c \in 1..MaxClients, name \in Accessors,
          id \in FolderArgs : Accessor(p, c, name, id)
    \/ \E p \in Callers : CallTokenOk(p)
    \/ \E p \in Callers : CallTokenFail(p)
    \/ \E p \in Callers, out \in Answers : Response(p, out)
    \/ \E p \in Callers, c \in 1..MaxClients, f \in FolderInputs,
          lv \in BOOLEAN : CallGetHeaders(p, c, f, lv)

SpecHttp == HttpInit /\ [][HttpNext]_vars

(***************************************************************************)
(* list_library_versions on one session (test.py:360-366), with the token  *)
(* slot empty or filled; the scan of longer service indexes is SpecLocate.  *)
(***************************************************************************)
LibInit == HttpInit

LibNext ==
    \/ \E c \in 1..MaxClients, package_id \in PackageIds, feed_id \in FeedIds :
            ListLibraryVersions(c, package_id, feed_id)
    \/ LibTokenOk
    \/ LibTokenFail
    \/ \E out \in FeedFailures : FeedFail(out)
    \/ \E index \in ShortIndexes : IndexResponse(index)
    \/ \E data \in VersionDocs : VersionsResponse(data)

SpecLib == LibInit /\ [][LibNext]_vars

(***************************************************************************)
(* The scan for the base address applied to every service index within the *)
(* bounds.                                                                 *)
(***************************************************************************)
LocateInit ==
    /\ RegInit
    /\ AggIdle
    /\ HttpIdle
    /\ DlIdle
    /\ PrIdle
    /\ run = NoRun
    /\ calls = <<>>
    /\ feeddoc \in Indexes
    /\ final = NoFinal

LocateNext == Locate

SpecLocate == LocateInit /\ [][LocateNext]_vars

(***************************************************************************)
(* Downloads by a registered session into one download directory.          *)
(***************************************************************************)
DlInit == HttpInit

DlNext ==
    \/ \E package_id \in PackageIds, version \in VersionArgs :
            Download(package_id, version)
    \/ \E out \in FeedFailures : ArtifactFail(out)
    \/ \E n \in 0..MaxBytes : ArtifactOk(n)
    \/ WriteByte
    \/ WriteFail
    \/ Persist

SpecDl == DlInit /\ [][DlNext]_vars

(***************************************************************************)
(* Feed-index probing on one session, over runs of consecutive candidates *)
(* of its own candidate list.                                              *)
(***************************************************************************)
PrInit == HttpInit

\* the runs of up to MaxUrls consecutive candidates of a list
Runs(urls) ==
    {SubSeq(urls, a, b) : a \in 1..Len(urls),
                          b \in 0..Len(urls)} \cap
        UNION {[1..n -> Range(urls)] : n \in 0..MaxUrls}

PrNext ==
    \/ \E c \in 1..MaxClients, feed_id \in FeedIds, nuget_key \in ApiKeys :
          /\ c \in 1..Len(objs)
          /\ \E urls \in Runs(CandidateNugetIndexUrls(c, feed_id)) :
                GetFirstWorkingJson(c, urls, nuget_key)
    \/ \E out \in ProbeAnswers : ProbeAnswer(out)

SpecPr == PrInit /\ [][PrNext]_vars

(***************************************************************************)
(* Claims about token acquisition and the client registry (under Spec).    *)
(***************************************************************************)
NoAuthInFlight == \A p \in Callers : pc[p] # "authenticating"

InFlightFor(account) ==
    {p \in Callers : pc[p] = "authenticating" /\ posts[call[p].post] = account}

\* C1: token acquisition is single-flight: concurrent authenticate() calls
\* for the same account never have more than one token-endpoint POST in
\* flight, so callers that start with no cached token share one request.
C1_SingleFlight ==
    \A account \in ConfiguredAccounts : Cardinality(InFlightFor(account)) <= 1

\* C2: all get_client callers for one (account, tenant) key receive the same
\* OrchestratorClient instance, under every interleaving.
C2_OneClientPerKey ==
    \A p \in Callers, q \in Callers :
        (ret[p].kind = "client" /\ ret[q].kind = "client"
            /\ ret[p].key = ret[q].key)
        => ret[p].client = ret[q].client

\* C3: tokens are cached per account: the bearer token a registered session
\* holds and sends was obtained with that session's own account credentials.
C3_TokenPerAccount ==
    \A key \in DOMAIN CLIENTS :
        access_token.cred = objs[CLIENTS[key]].account

\* C4: token reuse: once a token is cached and no token request is in flight
\* (calls are sequential), every further step leaves the token value
\* identical, issues no token-endpoint POST, and every authenticate() that
\* returns hands back that same token.
C4_TokenReuse ==
    [][(Truthy(access_token) /\ NoAuthInFlight)
         => /\ access_token' = access_token
            /\ posts' = posts
            /\ \A p \in Callers :
                  (ret'[p] # ret[p] /\ ret'[p].kind = "token")
                  => ret'[p].token = access_token]_vars

\* two authenticate() calls have returned the same token after one POST
C4_Witness ==
    /\ Truthy(access_token)
    /\ NoAuthInFlight
    /\ Len(posts) = 1
    /\ nauth >= 2
    /\ \A p \in Callers : ret[p].kind = "token" /\ ret[p].token = access_token

GetClientInFlight(key) ==
    \E p \in Callers :
        pc[p] = "authenticating" /\ call[p].op = "get_client"
            /\ call[p].key = key

\* C5: the registry is idempotent for sequential calls: a get_client call for
\* a key already in the cache returns the cached instance, leaves the cache
\* unchanged, constructs no client and makes no authentication call; and with
\* no other get_client for the key in flight the cached instance stays the
\* same, so sequential calls return the identity-equal session.
C5_IdempotentRegistry ==
    [][/\ \A p \in Callers, a \in AccountArgs, t \in TenantArgs :
             (Key(a, t) \in DOMAIN CLIENTS /\ GetClient(p, a, t))
             => /\ ret'[p] = ClientRet(Key(a, t), CLIENTS[Key(a, t)])
                /\ CLIENTS' = CLIENTS
                /\ objs' = objs
                /\ nauth' = nauth
                /\ posts' = posts
       /\ \A key \in DOMAIN CLIENTS :
             ~GetClientInFlight(key)
             => /\ key \in DOMAIN CLIENTS'
                /\ CLIENTS'[key] = CLIENTS[key]
                /\ ~GetClientInFlight(key)']_vars

\* two get_client calls for one key have returned the one cached instance
\* after a single construction and a single authentication call
C5_Witness ==
    /\ Len(objs) = 1
    /\ nauth = 1
    /\ \A p \in Callers :
          /\ ret[p].kind = "client"
          /\ ret[p].key \in DOMAIN CLIENTS
          /\ ret[p].client = CLIENTS[ret[p].key]
    /\ \A p \in Callers, q \in Callers : ret[p] = ret[q]

ConfiguredKeys ==
    UNION {{Key(a, t) : t \in Range(CONFIG[a])} : a \in ConfiguredAccounts}

\* C6: unknown account or tenant fails closed: get_client for an account or
\* tenant that is not configured caches nothing, so every key in the registry
\* cache is a configured (account, tenant) pair.
C6_FailClosed == \A key \in DOMAIN CLIENTS : key \in ConfiguredKeys

\* C15: when the token endpoint answers outside 2xx, the authenticate() that
\* was waiting fails with an authentication error and caches nothing; the
\* token slot changes only when a token request succeeds, and then to a
\* non-empty token; while the slot is empty every authenticate() issues a
\* new token request and none returns a stale or empty token.
C15_AuthFailureCachesNothing ==
    [][/\ \A p \in Callers :
             (pc[p] = "authenticating" /\ ret'[p].kind = "AuthError")
             => /\ access_token' = access_token
                /\ CLIENTS' = CLIENTS
                /\ pc'[p] = "idle"
       /\ access_token' # access_token
             => /\ Truthy(access_token')
                /\ \E p \in Callers :
                      /\ pc[p] = "authenticating"
                      /\ pc'[p] = "idle"
                      /\ ret'[p].kind \in {"token", "client"}
       /\ \A p \in Callers, c \in 1..MaxClients :
             (~Truthy(access_token) /\ Authenticate(p, c))
             => /\ Len(posts') = Len(posts) + 1
                /\ pc'[p] = "authenticating"
                /\ ret'[p] = NoRet
       /\ \A p \in Callers :
             ret'[p].kind = "token" => Truthy(ret'[p].token)
      ]_vars

\* a token request has failed and left the slot empty, and the authenticate()
\* that followed issued a second request, whose token is now cached
C15_Witness ==
    \E p \in Callers, q \in Callers :
        /\ ret[p].kind = "AuthError"
        /\ ret[q].kind = "token"
        /\ Len(posts) = 2
        /\ ret[q].token = IssuedToken(2)
        /\ access_token = IssuedToken(2)

(***************************************************************************)
(* Claims about the aggregated fetch (under SpecAgg).                      *)
(***************************************************************************)
\* the collection that holds the records of a resource kind
Collection(kind) ==
    CASE kind = "assets" -> "odata/Assets"
      [] kind = "queues" -> "odata/QueueDefinitions"
      [] kind = "triggers" -> "odata/ProcessSchedules"
      [] kind = "processes" -> "odata/Releases"

OwnItems(kind, n) == [j \in 1..n |-> [coll |-> Collection(kind), id |-> j]]

EntriesFor(kind) ==
    {j \in DOMAIN resp.resources : resp.resources[j].kind = kind}

Attempted(i) == gets[i] # NoRequest \/ task[i].post # 0

\* C7: the aggregator contains failures: whatever each requested kind's
\* sub-fetch meets (success, HTTP error, network error, timeout), every
\* requested kind's sub-fetch is attempted, get_resources returns once all
\* have settled, each failing kind is reported as an error entry for that
\* kind only and each succeeding kind with exactly its own items.
C7_FailuresContained ==
    /\ \A i \in DOMAIN task : Attempted(i)
    /\ (fetch.active /\ AllSettled) => ENABLED FetchReturn
    /\ resp.done =>
         \A i \in DOMAIN fetch.req :
            /\ EntriesFor(fetch.req[i]) # {}
            /\ \A j \in EntriesFor(fetch.req[i]) :
                  IF outcome[i].t = "ok"
                  THEN resp.resources[j].entry =
                          [items |-> OwnItems(fetch.req[i], outcome[i].n)]
                  ELSE DOMAIN resp.resources[j].entry = {"error"}

\* a response that mixes a kind with records and a kind that failed
C7_Witness ==
    /\ resp.done
    /\ \E i \in DOMAIN outcome, j \in DOMAIN outcome :
          /\ outcome[i].t = "ok" /\ outcome[i].n > 0
          /\ outcome[j].t \in {"http", "net", "timeout"}

\* C8: the response has exactly one entry per requested kind and no entry
\* for a kind that was not requested, whatever the per-kind outcomes,
\* including failure of every endpoint.
C8_OneEntryPerKind ==
    resp.done =>
        /\ Len(resp.resources) = Len(fetch.req)
        /\ \A kind \in Kinds :
              Cardinality(EntriesFor(kind)) =
                 IF kind \in Range(fetch.req) THEN 1 ELSE 0

\* a response returned after every requested endpoint failed
C8_Witness ==
    /\ resp.done
    /\ Len(fetch.req) >= 2
    /\ \A i \in DOMAIN outcome : outcome[i].t # "ok"

\* C9: every entry is exactly one of items or error; a kind fetched with
\* zero records is the empty items list, never an error, and a kind whose
\* fetch failed is never an items list.
C9_ItemsOrFailure ==
    resp.done =>
        /\ \A j \in DOMAIN resp.resources :
              DOMAIN resp.resources[j].entry \in {{"items"}, {"error"}}
        /\ \A i \in DOMAIN fetch.req :
              \A j \in EntriesFor(fetch.req[i]) :
                 /\ (outcome[i].t = "ok" /\ outcome[i].n = 0)
                       => resp.resources[j].entry = [items |-> <<>>]
                 /\ outcome[i].t # "ok"
                       => "items" \notin DOMAIN resp.resources[j].entry

\* one response holding a kind with zero records and a kind that failed
C9_Witness ==
    /\ resp.done
    /\ \E i \in DOMAIN outcome, j \in DOMAIN outcome :
          /\ outcome[i].t = "ok" /\ outcome[i].n = 0
          /\ outcome[j].t = "http"

\* C10: the caller sees nothing until every sub-fetch has settled, and the
\* map it then receives lists the kinds in the order they were requested,
\* whatever order the sub-fetches completed in.
C10_AtomicInOrder ==
    \/ resp = NoResp
    \/ /\ resp.done
       /\ AllSettled
       /\ Len(order) = Len(fetch.req)
       /\ [j \in DOMAIN resp.resources |-> resp.resources[j].kind] = fetch.req

\* a response returned after the sub-fetches completed out of request order
C10_Witness ==
    /\ resp.done
    /\ Len(order) >= 2
    /\ order # [i \in 1..Len(order) |-> i]

\* the sessions created so far for the tenants of one account
SessionsOf(account) == {c \in 1..Len(objs) : objs[c].account = account}

\* C21: the token is shared across all tenants of the account: once a token
\* is cached, authenticate() on any client returns that same token and
\* issues no token-endpoint request, a session created for another tenant is
\* authenticated and cached without a request, and a token request is only
\* ever issued while no token is cached; so however many sessions are
\* created after the first authentication, the requests stay at one.
C21_TokenSharedAcrossTenants ==
    [][/\ \A p \in Callers, c \in 1..MaxClients :
             (Truthy(access_token) /\ Authenticate(p, c))
             => /\ ret'[p].kind = "token"
                /\ ret'[p].token = access_token
                /\ access_token' = access_token
                /\ posts' = posts
       /\ \A p \in Callers, a \in ConfiguredAccounts, t \in TenantArgs :
             (Truthy(access_token) /\ GetClient(p, a, t) /\ objs' # objs)
             => /\ ret'[p] = ClientRet(Key(a, t), Len(objs'))
                /\ Key(a, t) \in DOMAIN CLIENTS'
                /\ CLIENTS'[Key(a, t)] = Len(objs')
                /\ access_token' = access_token
                /\ posts' = posts
       /\ posts' # posts => ~Truthy(access_token)
      ]_vars

\* sessions for both tenants of acme are cached, the second one created after
\* the first had authenticated, and one token request was issued in all
C21_Witness ==
    /\ Key("acme", "DEV") \in DOMAIN CLIENTS
    /\ Key("acme", "PROD") \in DOMAIN CLIENTS
    /\ Cardinality({objs[c].tenant : c \in SessionsOf("acme")}) = 2
    /\ Len(posts) = 1
    /\ Truthy(access_token)
    /\ nauth = 2

\* the step returns caller p from a get_client whose authenticate() succeeded
AuthenticatedReturn(p, key) ==
    \/ /\ pc[p] = "authenticating"
       /\ call[p].op = "get_client"
       /\ call[p].key = key
       /\ pc'[p] = "idle"
       /\ Truthy(access_token')
       /\ ret'[p] = ClientRet(key, call[p].client)
       /\ CLIENTS'[key] = call[p].client
    \/ /\ pc[p] = "idle"
       /\ pc'[p] = "idle"
       /\ Truthy(access_token)
       /\ nauth' = nauth + 1
       /\ objs' # objs
       /\ ret'[p] = ClientRet(key, Len(objs'))
       /\ CLIENTS'[key] = Len(objs')

\* C22: the registry only ever holds authenticated sessions: the cache
\* changes only by the insertion of one client at the return of a get_client
\* whose authenticate() has succeeded; a get_client that fails, in the
\* constructor or in authentication, hands the error to its caller and
\* leaves the cache unchanged; and a get_client for a key that is not cached
\* constructs and authenticates again.
C22_OnlyAuthenticatedCached ==
    [][/\ CLIENTS' # CLIENTS
             => \E p \in Callers, key \in DOMAIN CLIENTS' :
                   /\ AuthenticatedReturn(p, key)
                   /\ \A k \in DOMAIN CLIENTS :
                         k # key => (k \in DOMAIN CLIENTS'
                                        /\ CLIENTS'[k] = CLIENTS[k])
                   /\ DOMAIN CLIENTS' = DOMAIN CLIENTS \cup {key}
       /\ \A p \in Callers :
             (ret'[p] # ret[p] /\ ret'[p].kind \in {"ConfigError", "AuthError"})
             => /\ CLIENTS' = CLIENTS
                /\ pc'[p] = "idle"
       /\ \A p \in Callers, a \in AccountArgs, t \in TenantArgs :
             (Key(a, t) \notin DOMAIN CLIENTS /\ GetClient(p, a, t))
             => \/ ret'[p].kind = "ConfigError" /\ objs' = objs
                \/ /\ Len(objs') = Len(objs) + 1
                   /\ objs'[Len(objs')].madeFor = Key(a, t)
                   /\ nauth' = nauth + 1
      ]_vars

\* a get_client failed in authentication and left the cache empty; the next
\* get_client for the key constructed and authenticated again and is cached
C22_Witness ==
    /\ Len(objs) = 2
    /\ objs[1].madeFor = objs[2].madeFor
    /\ Len(posts) = 2
    /\ access_token = IssuedToken(2)
    /\ DOMAIN CLIENTS = {objs[2].madeFor}
    /\ CLIENTS[objs[2].madeFor] = 2
    /\ \E p \in Callers : ret[p].kind = "AuthError"

(***************************************************************************)
(* Claims about the single-resource operations (under SpecHttp).           *)
(***************************************************************************)
\* the call of p puts its resource request on the wire in this step
Sends(p) == frame[p].st # "sent" /\ frame'[p].st = "sent"

\* the scope the folder-scoping rule prescribes for a folder_id argument
ScopeOf(c, f) == IF f.none THEN objs[c].account ELSE ToString(f.id)

\* C11: folder-scoping header rule: for every integer folder_id provided to
\* get or get_headers, 0 included, X-UIPATH-OrganizationUnitId is the decimal
\* string of that folder_id; when no folder_id is provided the header is
\* present and is the account's logical name.
C11_FolderHeader ==
    [][\A p \in Callers :
          /\ (Sends(p) /\ frame'[p].name # "post")
                => /\ "OrganizationUnitId" \in DOMAIN wire'[p].headers
                   /\ wire'[p].headers.OrganizationUnitId =
                         ScopeOf(frame'[p].client, frame'[p].folder)
          /\ \A c \in 1..Len(objs), f \in FolderInputs :
                (CallGetHeaders(p, c, f, FALSE) /\ Truthy(access_token))
                => /\ "OrganizationUnitId" \in DOMAIN reply'[p].value[1]
                   /\ reply'[p].value[1].OrganizationUnitId = ScopeOf(c, f)
      ]_vars

\* the caller enters get(), post() or an accessor in this step
Enters(p) == frame[p].st = "idle" /\ frame'[p].st # "idle"

\* C12: every resource request sent by get() or post() carries the bearer
\* token that is cached when it is sent, Content-Type application/json and
\* the tenant of its session; no resource request is sent while the token
\* slot is empty: a call entered without a token issues the token request
\* first, and get_headers() without a token raises and builds nothing.
C12_AuthenticatedRequests ==
    [][\A p \in Callers :
          /\ Sends(p)
                => /\ Truthy(access_token')
                   /\ wire'[p].headers.Authorization = Bearer(access_token')
                   /\ wire'[p].headers.ContentType = "application/json"
                   /\ wire'[p].headers.TenantName =
                         objs[frame'[p].client].tenant
          /\ (Enters(p) /\ ~Truthy(access_token))
                => /\ frame'[p].st = "auth"
                   /\ wire'[p].method = ""
                   /\ Len(posts') = Len(posts) + 1
          /\ \A c \in 1..Len(objs), f \in FolderInputs, lv \in BOOLEAN :
                (CallGetHeaders(p, c, f, lv) /\ ~Truthy(access_token))
                => reply'[p] = Failure("RuntimeError", 0)
      ]_vars

\* one caller's get_headers() was refused for want of a token, the other
\* caller's request is on the wire behind the token its own call acquired
C12_Witness ==
    \E p \in Callers, q \in Callers :
        /\ reply[p].err = "RuntimeError"
        /\ frame[q].st = "sent"
        /\ frame[q].post # 0
        /\ wire[q].headers.Authorization = Bearer(access_token)

\* the endpoint fixed for each accessor
FixedEndpoint(name) ==
    CASE name = "get_assets" -> "odata/Assets"
      [] name = "get_queues" -> "odata/QueueDefinitions"
      [] name = "get_storage_buckets" -> "odata/Buckets"
      [] name = "get_triggers" -> "odata/ProcessSchedules"
      [] name = "get_processes" -> "odata/Releases"
      [] name = "get_folders" -> "odata/Folders"
      [] name = "list_libraries" -> "odata/Libraries"

\* C13: each accessor issues exactly one GET, to its fixed endpoint and with
\* its fixed scope: get_assets, get_queues, get_storage_buckets, get_triggers
\* and get_processes are scoped to the folder_id they are given, get_folders
\* and list_libraries to the account; the URL is
\* {base_url}{account}/orchestrator_/{tenant}/{endpoint}.
C13_AccessorRequests ==
    \A p \in Callers :
        (frame[p].name \in Accessors /\ frame[p].st = "sent")
        => /\ frame[p].sent = 1
           /\ wire[p].method = "GET"
           /\ wire[p].url =
                 base_url \o objs[frame[p].client].account \o "/orchestrator_/"
                    \o objs[frame[p].client].tenant \o "/"
                    \o FixedEndpoint(frame[p].name)
           /\ wire[p].headers.OrganizationUnitId =
                 IF frame[p].name \in {"get_folders", "list_libraries"}
                 THEN objs[frame[p].client].account
                 ELSE ToString(frame[p].folder.id)

\* C14: a get() or accessor call whose resource request is answered with a
\* status outside 2xx raises an HTTP error carrying that status, returns no
\* data, has sent exactly one resource request and sends no other (no
\* retry), and leaves the cached token and the registry cache unchanged.
C14_HttpErrorNoRetry ==
    [][\A p \in Callers, out \in Answers :
          (/\ Response(p, out)
           /\ frame[p].name # "post"
           /\ out.t = "http"
           /\ (out.status < 200 \/ out.status > 299))
          => /\ reply'[p].raised
             /\ reply'[p].err = "HttpError"
             /\ reply'[p].status = out.status
             /\ reply'[p].value = <<>>
             /\ frame[p].sent = 1
             /\ frame'[p] = NoFrame
             /\ wire'[p].method = ""
             /\ posts' = posts
             /\ access_token' = access_token
             /\ CLIENTS' = CLIENTS
      ]_vars

\* an accessor of a registered, authenticated session has failed with 403,
\* another with 500
C14_Witness ==
    /\ Truthy(access_token)
    /\ DOMAIN CLIENTS # {}
    /\ \E p \in Callers, q \in Callers :
          /\ answer[p].t = "http" /\ reply[p].status = 403
          /\ answer[q].t = "http" /\ reply[q].status = 500
          /\ Idle(p) /\ Idle(q)

(***************************************************************************)
(* Claims about list_library_versions (under SpecLib and SpecLocate).      *)
(***************************************************************************)
\* the feed requests of the run, in the order they were issued
FeedStages ==
    SelectSeq([i \in DOMAIN calls |-> calls[i].stage],
              LAMBDA stage : stage # "token")

TransportErrors == {"HttpError", "NetworkError", "Timeout", "MalformedResponse"}

\* the errors each stage can end the run with
StageErrors(stage) ==
    CASE stage = "Authenticate" -> {"AuthError"}
      [] stage = "Configuration" -> {"FeedIdNotSet"}
      [] stage = "ResolveIndex" -> TransportErrors
      [] stage = "LocatePackageBaseAddress" -> {"NotAdvertised", "KeyError"}
      [] stage = "ListOrFetch" -> TransportErrors \cup {"NoVersions"}

\* the stage a finished run was in when it ended, read off its last call
EndStage ==
    IF calls = <<>> THEN "Configuration"
    ELSE LET last == calls[Len(calls)]
         IN IF last.stage = "token"
            THEN IF last.ans = "ok" THEN "Configuration" ELSE "Authenticate"
            ELSE IF last.stage = "index"
            THEN IF last.ans = "ok" THEN "LocatePackageBaseAddress"
                 ELSE "ResolveIndex"
            ELSE "ListOrFetch"

\* the index holds an entry typed PackageBaseAddress/3.0.0, alone or in a list
Advertises(index) ==
    /\ index.has
    /\ \E i \in DOMAIN index.resources :
          LET t == index.resources[i].type
          IN \E k \in DOMAIN t.tags :
                t.kind \in {"str", "list"} /\ t.tags[k] = "PackageBaseAddress/3.0.0"

StagesWellFormed ==
    /\ FeedStages \in {<<>>, <<"index">>, <<"index", "versions">>}
    /\ \A i \in DOMAIN calls :
          /\ i < Len(calls) => (calls[i].ans = "ok" /\ calls[i].status = 200)
          /\ calls[i].stage # "token" => Truthy(calls[i].bearer)
    /\ run.st = "versions" => (Advertises(feeddoc) /\ run.base_addr.stem # "")
    /\ run.st \in {"index", "versions"}
          => ENABLED (\E out \in FeedFailures : FeedFail(out))
    /\ run.st # "idle"
          => /\ ~final.done
             /\ calls # <<>>
             /\ calls[Len(calls)].ans = ""
             /\ calls[Len(calls)].stage =
                   IF run.st = "auth" THEN "token" ELSE run.st
    /\ final.done
          => /\ run = NoRun
             /\ \A i \in DOMAIN calls : calls[i].ans # ""
             /\ final.raised = (final.value = <<>>)
             /\ IF final.raised
                THEN final.err \in StageErrors(EndStage)
                ELSE /\ FeedStages = <<"index", "versions">>
                     /\ calls[Len(calls)].ans = "ok"

\* C16: a package-version request goes through ResolveIndex,
\* LocatePackageBaseAddress, ListOrFetch, Done in that order: the versions
\* request is issued only in the step in which the index request is answered
\* 2xx, with an index holding a PackageBaseAddress entry; a failure at any
\* stage ends the run with an error of that stage and no later call is
\* issued; a finished run holds either versions or a named error, never
\* both, and a run in progress can always be answered.
C16_StagesInOrder ==
    /\ []StagesWellFormed
    /\ [][/\ Len(FeedStages') > Len(FeedStages)
                => IF FeedStages' = <<"index">>
                   THEN ~final.done' /\ run.st \in {"idle", "auth"}
                   ELSE /\ run.st = "index"
                        /\ calls'[Len(calls)].status = 200
          /\ (run.st # "idle" /\ final'.done /\ final'.raised)
                => Len(calls') = Len(calls)
         ]_vars

\* a run that acquired its token, resolved the index and located the base
\* address has ended with the HTTP error of its versions request
C16_Witness ==
    /\ final.done
    /\ final.raised
    /\ final.err = "HttpError"
    /\ FeedStages = <<"index", "versions">>
    /\ calls[1].stage = "token"

\* the entry is typed PackageBaseAddress/3.0.0, alone or in a list
Typed(res) ==
    \E k \in DOMAIN res.type.tags :
        res.type.kind \in {"str", "list"}
            /\ res.type.tags[k] = "PackageBaseAddress/3.0.0"

\* the entries so typed, and the first of them
TypedEntries(index) ==
    IF index.has THEN {i \in DOMAIN index.resources : Typed(index.resources[i])}
    ELSE {}
FirstTyped(index) ==
    index.resources[CHOOSE i \in TypedEntries(index) :
                        \A j \in TypedEntries(index) : i <= j]

VersionsRead ==
    /\ final.done
    /\ calls # <<>>
    /\ calls[Len(calls)].stage = "versions"
    /\ calls[Len(calls)].ans = "ok"

\* how many times v occurs in sq
Count(v, sq) == Cardinality({i \in DOMAIN sq : sq[i] = v})

\* C18: list_library_versions fails with the no-versions error whenever the
\* versions array of the feed is empty or absent; otherwise it returns a
\* non-empty sequence holding exactly the versions the feed returned, each
\* as many times; it never returns an empty list.
C18_VersionsOrError ==
    /\ (final.done /\ ~final.raised) => final.value # <<>>
    /\ VersionsRead
          => IF ~feeddoc.has \/ feeddoc.versions = <<>>
             THEN final = Raise("NoVersions")
             ELSE /\ ~final.raised
                  /\ Len(final.value) = Len(feeddoc.versions)
                  /\ \A v \in VersionStrings :
                        Count(v, final.value) = Count(v, feeddoc.versions)

\* three versions, one of them twice, have been returned in another order
\* than the feed's
C18_Witness ==
    /\ VersionsRead
    /\ ~final.raised
    /\ Len(final.value) = 3
    /\ \E v \in VersionStrings : Count(v, feeddoc.versions) = 2
    /\ final.value # feeddoc.versions

\* a precedes b in the lexicographic order of their code points
Before(a, b) ==
    \E k \in 1..Len(b) :
        /\ \A i \in 1..(k - 1) : i <= Len(a) /\ a[i] = b[i]
        /\ k - 1 <= Len(a)
        /\ (k <= Len(a) => Ord(a[k]) < Ord(b[k]))

\* str.lower() on the characters of the version strings
LowerCh(ch) == IF ch = "B" THEN "b" ELSE ch
Lowered(v) == [i \in DOMAIN v |-> LowerCh(v[i])]

\* the orders in which a feed can return the versions of sq
FeedOrders(sq) ==
    {[i \in DOMAIN sq |-> sq[f[i]]] :
        f \in {g \in [DOMAIN sq -> DOMAIN sq] :
                  \A i \in DOMAIN sq, j \in DOMAIN sq : g[i] = g[j] => i = j}}

PermutationInvariant ==
    \A perm \in FeedOrders(feeddoc.versions) : Sorted(perm) = final.value

\* C19 as stated: the versions are returned ascending in the order of their
\* string forms after normalisation to lower case, the same for every
\* permutation in which the feed returns them.
C19_LowerCaseOrder ==
    (VersionsRead /\ ~final.raised)
    => /\ \A i \in DOMAIN final.value, j \in DOMAIN final.value :
             i < j => ~Before(Lowered(final.value[j]), Lowered(final.value[i]))
       /\ PermutationInvariant

\* C19 amended: the versions are returned ascending in the code-point order
\* of their string forms as the feed gave them, with no case normalisation,
\* the same for every permutation in which the feed returns them.
C19_CodePointOrder ==
    (VersionsRead /\ ~final.raised)
    => /\ \A i \in DOMAIN final.value, j \in DOMAIN final.value :
             i < j => ~Before(final.value[j], final.value[i])
       /\ PermutationInvariant

\* the feed gave 1-a before 1-B and 1.2 before 1.10; each pair is returned in
\* the other order
C19_Witness ==
    /\ VersionsRead
    /\ ~final.raised
    /\ \/ /\ feeddoc.versions = <<<<"1", "-", "a">>, <<"1", "-", "B">>>>
          /\ final.value = <<<<"1", "-", "B">>, <<"1", "-", "a">>>>
       \/ /\ feeddoc.versions = <<<<"1", ".", "2">>, <<"1", ".", "1", "0">>>>
          /\ final.value = <<<<"1", ".", "1", "0">>, <<"1", ".", "2">>>>

(***************************************************************************)
(* Claims about download_library_version (under SpecDl).                   *)
(***************************************************************************)
\* the file at {download_dir}/{package_id}.{version}.nupkg
AtFinalPath(package_id, version) ==
    disk[download_dir \o "/" \o package_id \o "." \o version \o ".nupkg"]

AnsweredCandidates == {k \in 1..Len(requests) : requests[k].ans.t # "none"}

\* the requests went to the candidates in list order, one request each
ProbedInOrder ==
    /\ Len(requests) <= Len(probe.urls)
    /\ \A k \in 1..Len(requests) : requests[k].url = probe.urls[k]
    /\ \A k \in 1..Len(requests) : k < Len(requests) => k \in AnsweredCandidates

\* the urls of the recorded attempts, in order
AttemptUrls(tried) == [j \in 1..Len(tried) |-> tried[j].url]

\* C23 as stated: candidates are tried in list order; the first URL that
\* answers 200 is returned with its JSON and no later candidate is asked;
\* probing goes on after a non-200 status or an exception; the call raises
\* only after every candidate was tried once and none answered 200, and the
\* error lists one attempt per candidate.
C23_ProbingAsStated ==
    /\ ProbedInOrder
    /\ \A k \in AnsweredCandidates :
          requests[k].ans.status = 200
              => /\ k = Len(requests)
                 /\ found.done /\ ~found.raised
                 /\ found.url = probe.urls[k]
                 /\ found.json = requests[k].ans.doc
    /\ (found.done /\ ~found.raised)
          => requests[Len(requests)].ans.status = 200
    /\ (found.done /\ found.raised)
          => /\ AnsweredCandidates = 1..Len(probe.urls)
             /\ \A k \in AnsweredCandidates : requests[k].ans.status # 200
             /\ AttemptUrls(found.lines) = probe.urls

\* the attempts the answers of candidates 1..k leave behind: one for each
\* candidate, and a second one for a 200 answer whose body is not JSON
RECURSIVE ExpectedUrls(_)
ExpectedUrls(k) ==
    IF k = 0 THEN <<>>
    ELSE ExpectedUrls(k - 1)
            \o (IF requests[k].ans.t = "malformed"
                THEN <<probe.urls[k], probe.urls[k]>>
                ELSE <<probe.urls[k]>>)

\* C23 (amended): candidates are tried in list order; the first URL that
\* answers 200 with a JSON body is returned with that JSON and no later
\* candidate is asked; a non-200 status, an exception or a 200 body that is
\* not JSON is recorded and probing goes on with the next candidate; the call
\* raises only after every candidate was tried once and none answered 200
\* with a JSON body, and the error lists one attempt per candidate plus a
\* second one for each candidate that answered 200 with a body that is not
\* JSON.
C23_Probing ==
    /\ ProbedInOrder
    /\ \A k \in AnsweredCandidates :
          requests[k].ans.t = "ok"
              => /\ k = Len(requests)
                 /\ found.done /\ ~found.raised
                 /\ found.url = probe.urls[k]
                 /\ found.json = requests[k].ans.doc
    /\ (found.done /\ ~found.raised)
          => /\ requests[Len(requests)].ans.t = "ok"
             /\ requests[Len(requests)].ans.status = 200
    /\ \A k \in AnsweredCandidates :
          requests[k].ans.t # "ok"
              => /\ probe.urls[k] \in Range(AttemptUrls(attempts))
                 /\ k < Len(probe.urls) => Len(requests) > k
                 /\ k = Len(probe.urls) => (found.done /\ found.raised)
    /\ AttemptUrls(attempts) = ExpectedUrls(Cardinality(AnsweredCandidates))
    /\ (found.done /\ found.raised)
          => /\ AnsweredCandidates = 1..Len(probe.urls)
             /\ \A k \in AnsweredCandidates : requests[k].ans.t # "ok"
             /\ found.lines = attempts

\* the first candidate answered 200 with a body that is not JSON, probing
\* went on, and a later candidate was returned with its JSON
C23_Witness ==
    /\ found.done /\ ~found.raised
    /\ Len(requests) >= 2
    /\ requests[1].ans.t = "malformed"
    /\ found.url = probe.urls[Len(requests)]
    /\ found.json \in IndexDocs
    /\ Len(attempts) = Len(requests) + 1

====
